---- MODULE Spec2Model ----
(***************************************************************************)
(* Model of memstore.go (package inmemorydb): a map guarded by a           *)
(* sync.RWMutex, flushed to one file as JSON by explicit Flush/Close calls *)
(* and by a background goroutine driven by a time.Ticker.                  *)
(*                                                                         *)
(* The model follows src/main.go (the map[string]interface{} variant);     *)
(* src/unnamed/part_000 is the same code with a type parameter.            *)
(***************************************************************************)
EXTENDS Integers, Sequences, FiniteSets, TLC

(***************************************************************************)
(* Bounds of the model.                                                    *)
(***************************************************************************)
\* Total number of API calls (and caller-side edits of a returned copy) the
\* client goroutines make on one store.
MaxOps == 2

\* The same total for the runs in which each client goroutine keeps to a key
\* of its own.
MaxOpsDisjoint == 3

\* Client goroutines, keys, and the values callers pass to Set.
Clients == {"c1", "c2"}
Sched == "sched"
Procs == Clients \cup {Sched}
Keys == {"k1", "k2"}
KeyOrder == <<"k1", "k2">>
None == "none"

(***************************************************************************)
(* Go values held in a map[string]interface{}.                             *)
(***************************************************************************)
IntV(n) == [t |-> "int", n |-> n]
FloatV(n) == [t |-> "float64", n |-> n]
\* nil interface{}: the zero value Get returns for a missing key
NilV == [t |-> "nil", n |-> 0]
\* marks "no entry for this key" in the model of a map
Absent == [t |-> "absent", n |-> 0]

\* values the callers of this model pass to Set
SetVals == {IntV(1), FloatV(2)}
EmptyMap == [k \in Keys |-> Absent]

(***************************************************************************)
(* The file: a sequence of JSON tokens.                                    *)
(***************************************************************************)
Punct(s) == [k |-> "punct", s |-> s, n |-> 0]
StrTok(s) == [k |-> "str", s |-> s, n |-> 0]
NumTok(n) == [k |-> "num", s |-> "", n |-> n]
NullTok == [k |-> "null", s |-> "", n |-> 0]
LBrace == Punct("{")
RBrace == Punct("}")
Newline == Punct("nl")

NoFile == [exists |-> FALSE, bytes |-> <<>>]
File(b) == [exists |-> TRUE, bytes |-> b]

\* json.Marshal of one value: an int and a float64 of the same magnitude
\* print as the same JSON number.
EncodeValue(v) == NumTok(v.n)

\* json decoding of a JSON number into interface{} always gives float64.
DecodeValue(tok) == FloatV(tok.n)

RECURSIVE EncodeEntries(_, _)
EncodeEntries(m, i) ==
    IF i > Len(KeyOrder) THEN <<>>
    ELSE (IF m[KeyOrder[i]] = Absent THEN <<>>
          ELSE <<StrTok(KeyOrder[i]), EncodeValue(m[KeyOrder[i]])>>)
         \o EncodeEntries(m, i + 1)

\* encoder.Encode(s.data): a nil map prints as null, a map as an object with
\* its keys sorted, followed by a newline.
Encode(isNil, m) ==
    IF isNil THEN <<NullTok, Newline>>
    ELSE <<LBrace>> \o EncodeEntries(m, 1) \o <<RBrace, Newline>>

RECURSIVE ParseObject(_, _, _)
ParseObject(b, i, m) ==
    IF i > Len(b) THEN [ok |-> FALSE, m |-> m]
    ELSE IF b[i] = RBrace THEN [ok |-> TRUE, m |-> m]
    ELSE IF /\ b[i].k = "str"
            /\ b[i].s \in Keys
            /\ i + 1 <= Len(b)
            /\ b[i + 1].k = "num"
         THEN ParseObject(b, i + 2, [m EXCEPT ![b[i].s] = DecodeValue(b[i + 1])])
         ELSE [ok |-> FALSE, m |-> m]

\* decoder.Decode(&s.data): reads the first JSON value of the stream. A
\* document that is not valid, or not an object, is an error and leaves the
\* map as it was; null sets the map to nil; an object is decoded into the
\* existing map.
Decode(b, isNil, m) ==
    IF b = <<>> THEN [err |-> "EOF", isNil |-> isNil, m |-> m]
    ELSE IF b[1] = NullTok THEN [err |-> "nil", isNil |-> TRUE, m |-> EmptyMap]
    ELSE IF b[1] = LBrace
         THEN LET r == ParseObject(b, 2, m)
              IN  IF r.ok THEN [err |-> "nil", isNil |-> FALSE, m |-> r.m]
                  ELSE [err |-> "syntax", isNil |-> isNil, m |-> m]
    ELSE [err |-> "syntax", isNil |-> isNil, m |-> m]

\* an open for writing that creates the file but does not truncate it
OsCreateNoTrunc(d, fail) ==
    IF fail THEN [err |-> "io", disk |-> d]
    ELSE [err |-> "nil", disk |-> File(d.bytes)]

\* os.Create(s.flushPath): creates or truncates the file.
OsCreate(d, fail) ==
    IF fail THEN [err |-> "io", disk |-> d]
    ELSE [err |-> "nil", disk |-> File(<<>>)]

\* a write that appends to what the file holds
OsWriteAppend(d, b) == File(d.bytes \o b)

\* file.Write at offset 0 of a descriptor opened by os.Create.
OsWrite(d, b) ==
    File(b \o (IF Len(d.bytes) > Len(b)
               THEN SubSeq(d.bytes, Len(b) + 1, Len(d.bytes))
               ELSE <<>>))

\* an open that reports a missing file like any other failure
OsOpenNoNotExist(d, fail) == IF ~d.exists \/ fail THEN "io" ELSE "nil"

\* os.Open(s.flushPath)
OsOpen(d, fail) ==
    IF ~d.exists THEN "notexist"
    ELSE IF fail THEN "io"
    ELSE "nil"

\* loadFromDisk applied to a store whose map is (isNil, m).
loadFromDisk(d, fail, isNil, m) ==
    LET e == OsOpen(d, fail)
    IN  IF e = "notexist" THEN [err |-> "nil", isNil |-> isNil, m |-> m]
        ELSE IF e # "nil" THEN [err |-> e, isNil |-> isNil, m |-> m]
        ELSE Decode(d.bytes, isNil, m)

(***************************************************************************)
(* State.                                                                  *)
(***************************************************************************)
VARIABLES
    constructed,  \* NewStorage has returned
    flushPeriod,  \* storage.flushPeriod
    data,         \* storage.data: the entries of the map
    dataNil,      \* storage.data is the nil map
    stopChan,     \* "open" or "closed"
    muWriter,     \* storage.mu: the goroutine that holds or awaits the write lock
    muReaders,    \* storage.mu: the goroutines that hold the read lock
    disk,         \* the file at flushPath
    nSched,       \* number of flushPeriodically goroutines started
    loadErr,      \* what loadFromDisk returned to NewStorage
    newErr,       \* the error NewStorage hands to its caller
    budget,       \* number of calls the client goroutines of this run make
    pc,           \* position of every goroutine
    key,          \* key argument of the call in progress
    val,          \* value argument of the call in progress
    via,          \* who called the Flush in progress: "Flush", "Close" or "tick"
    ferr,         \* the error the Flush in progress is about to return
    getRet,       \* val, ok of the Get in progress, as it is about to return them
    errRet,       \* what the last Flush/Close returned to its caller
    held,         \* the map the last All returned, as the caller holds it
    panicked,     \* None, or the reason of the panic that ended the process
    nops,         \* number of API calls made so far
    closeRet,     \* history: what the Close call that returned returned
    closeSnap,    \* history: the entries of the map when Close was called
    closeFlushes, \* history: number of Flush calls the Close call has made
    closeAlone,   \* history: no Set/Delete/Flush call overlapped the Close call
                  \* and no explicit Flush call was made after it
    lastWrite     \* history: per key, the value of the last Set that returned, or
                  \* Absent after a Delete that returned (initially: what was loaded)

vars == <<constructed, flushPeriod, data, dataNil, stopChan, muWriter, muReaders,
          disk, nSched, loadErr, newErr, budget, pc, key, val, via, ferr,
          getRet, errRet, held, panicked, nops, closeRet, closeSnap,
          closeFlushes, closeAlone, lastWrite>>

closeVars == <<closeRet, closeSnap, closeFlushes, closeAlone>>
storeVars == <<constructed, flushPeriod, nSched, loadErr, newErr, budget>>
muVars == <<muWriter, muReaders>>
argVars == <<key, val>>
retVars == <<getRet, errRet, held>>

NoKey == "nokey"
NoGet == [v |-> NilV, ok |-> FALSE, set |-> FALSE]
NoHeld == [has |-> FALSE, alias |-> FALSE, m |-> EmptyMap]

\* Contents the file may have before the store is constructed: absent,
\* a truncated object, null, and an object written by an earlier run.
InitDisks ==
    { NoFile,
      File(<<LBrace, StrTok("k1"), NumTok(1)>>),
      File(<<NullTok, Newline>>),
      File(Encode(FALSE, [k \in Keys |-> IF k = "k1" THEN IntV(2) ELSE IntV(1)])) }

\* Flush periods passed to NewStorage.
Periods == {0, 1}

InitStore(calls) ==
    /\ budget = calls
    /\ constructed = FALSE
    /\ flushPeriod = 0
    /\ data = EmptyMap
    /\ dataNil = FALSE
    /\ stopChan = "open"
    /\ muWriter = None
    /\ muReaders = {}
    /\ disk \in InitDisks
    /\ nSched = 0
    /\ loadErr = None
    /\ newErr = None
    /\ pc = [p \in Procs |-> IF p = Sched THEN "none" ELSE "idle"]
    /\ key = [p \in Procs |-> NoKey]
    /\ val = [p \in Procs |-> NilV]
    /\ via = [p \in Procs |-> None]
    /\ ferr = [p \in Procs |-> None]
    /\ getRet = [p \in Procs |-> NoGet]
    /\ errRet = [p \in Procs |-> None]
    /\ held = [p \in Procs |-> NoHeld]
    /\ panicked = None
    /\ nops = 0
    /\ closeRet = None
    /\ closeSnap = EmptyMap
    /\ closeFlushes = 0
    /\ closeAlone = TRUE
    /\ lastWrite = EmptyMap

Init == InitStore(MaxOps)

(***************************************************************************)
(* NewStorage                                                              *)
(***************************************************************************)
\* a NewStorage that starts the goroutine whatever the period
StartsSchedulerAlways(period) == TRUE

\* whether NewStorage starts the flushPeriodically goroutine
StartsScheduler(period) == period # 0

\* s.loadFromDisk() as a statement: its result is dropped, and NewStorage
\* returns the Storage alone.
Discard(e) == None

NewStorage(period, fail) ==
    /\ ~constructed
    /\ LET r == loadFromDisk(disk, fail, FALSE, EmptyMap)
       IN  /\ data' = r.m
           /\ dataNil' = r.isNil
           /\ loadErr' = r.err
           /\ lastWrite' = r.m
    /\ newErr' = Discard(loadErr')
    /\ budget' = budget
    /\ constructed' = TRUE
    /\ flushPeriod' = period
    /\ stopChan' = "open"
    /\ IF StartsScheduler(period)
       THEN /\ pc' = [pc EXCEPT ![Sched] = "start"]
            /\ nSched' = nSched + 1
       ELSE UNCHANGED <<pc, nSched>>
    /\ UNCHANGED <<muVars, disk, argVars, via, ferr, retVars,
                   panicked, nops>>
    /\ UNCHANGED closeVars

(***************************************************************************)
(* sync.RWMutex                                                            *)
(***************************************************************************)
Running == constructed /\ panicked = None

WaitToCs(s) ==
    CASE s = "get_rwait" -> "get_cs"
      [] s = "all_rwait" -> "all_cs"
      [] s = "flush_rwait" -> "flush_cs"
      [] s = "set_wwait" -> "set_cs"
      [] s = "del_wwait" -> "del_cs"
      [] OTHER -> s

IsRWait(s) == s \in {"get_rwait", "all_rwait", "flush_rwait"}

\* a Lock that does not wait for the readers inside to leave
LockNoWait(p, wait, cs) ==
    /\ muWriter = None
    /\ muWriter' = p
    /\ muReaders' = muReaders
    /\ pc' = [pc EXCEPT ![p] = cs]

\* mu.Lock() by p: takes the writer slot (callers of Lock queue on it), which
\* makes later RLock calls wait; enters at once when no reader holds the lock.
Lock(p, wait, cs) ==
    /\ muWriter = None
    /\ muWriter' = p
    /\ muReaders' = muReaders
    /\ pc' = [pc EXCEPT ![p] = IF muReaders = {} THEN cs ELSE wait]

\* mu.Lock() by a caller at `queue`: a Lock call made while another writer
\* holds or awaits the lock blocks until that writer has unlocked.
LockOrQueue(p, queue, wait, cs) ==
    IF muWriter = None
    THEN Lock(p, wait, cs)
    ELSE /\ pc' = [pc EXCEPT ![p] = queue]
         /\ UNCHANGED muVars

\* mu.Unlock() by p, then p continues at `next`: the readers that queued
\* behind the writer all enter.
Unlock(p, next) ==
    /\ muWriter' = None
    /\ muReaders' = {q \in Procs : IsRWait(pc[q])}
    /\ pc' = [q \in Procs |-> IF q = p THEN next ELSE WaitToCs(pc[q])]

\* an RLock that enters whether or not a writer holds the lock
RLockNoWait(p, wait, cs) ==
    /\ muWriter' = muWriter
    /\ muReaders' = muReaders \cup {p}
    /\ pc' = [pc EXCEPT ![p] = cs]

\* mu.RLock() by p: enters unless a writer holds or awaits the lock.
RLock(p, wait, cs) ==
    /\ muWriter' = muWriter
    /\ IF muWriter = None
       THEN /\ muReaders' = muReaders \cup {p}
            /\ pc' = [pc EXCEPT ![p] = cs]
       ELSE /\ muReaders' = muReaders
            /\ pc' = [pc EXCEPT ![p] = wait]

\* mu.RUnlock() by p, then p continues at `next`: the last reader out lets
\* the waiting writer in.
RUnlock(p, next) ==
    /\ muWriter' = muWriter
    /\ muReaders' = muReaders \ {p}
    /\ pc' = [q \in Procs |->
                IF q = p THEN next
                ELSE IF q = muWriter /\ muReaders \ {p} = {} THEN WaitToCs(pc[q])
                ELSE pc[q]]

(***************************************************************************)
(* Set                                                                     *)
(***************************************************************************)
\* Close has closed stopChan and has not returned
CloseInProgress == stopChan = "closed" /\ closeRet = None

CanCall(p) == Running /\ pc[p] = "idle" /\ nops < budget

\* the caller's view of earlier results is dropped when it makes a new call
Called(p, k, v) ==
    /\ key' = [key EXCEPT ![p] = k]
    /\ val' = [val EXCEPT ![p] = v]
    /\ getRet' = getRet
    /\ errRet' = [errRet EXCEPT ![p] = None]
    /\ held' = [held EXCEPT ![p] = NoHeld]
    /\ nops' = nops + 1

Returned(p) ==
    /\ key' = [key EXCEPT ![p] = NoKey]
    /\ val' = [val EXCEPT ![p] = NilV]

\* a Set that rebuilds the map from the one entry it was given
SetEntryClobber(m, k, v) == [j \in Keys |-> IF j = k THEN v ELSE Absent]

\* a Set whose write is lost
SetEntryLost(m, k, v) == m

\* a Set that inserts but never overwrites an existing entry
SetEntryNoOverwrite(m, k, v) == IF m[k] = Absent THEN [m EXCEPT ![k] = v] ELSE m

\* s.data[key] = value
SetEntry(m, k, v) == [m EXCEPT ![k] = v]

\* a Delete that drops every entry
DeleteEntryClear(m, k) == [j \in Keys |-> Absent]

\* delete(s.data, key)
DeleteEntry(m, k) == [m EXCEPT ![k] = Absent]

\* Set: s.mu.Lock()
SetCall(p, k, v) ==
    /\ CanCall(p)
    /\ LockOrQueue(p, "set_lock", "set_wwait", "set_cs")
    /\ Called(p, k, v)
    /\ UNCHANGED <<storeVars, data, dataNil, stopChan, disk,
                   via, ferr, panicked, lastWrite>>
    /\ closeAlone' = (closeAlone /\ ~CloseInProgress)
    /\ UNCHANGED <<closeRet, closeSnap, closeFlushes>>

\* Set, Delete: s.mu.Lock() returns to a caller that was blocked behind
\* another writer
WriterAcquire(p) ==
    /\ Running
    /\ pc[p] \in {"set_lock", "del_lock"}
    /\ IF pc[p] = "set_lock"
       THEN Lock(p, "set_wwait", "set_cs")
       ELSE Lock(p, "del_wwait", "del_cs")
    /\ UNCHANGED <<storeVars, data, dataNil, stopChan, disk,
                   argVars, via, ferr, retVars, panicked, nops,
                   lastWrite>>
    /\ UNCHANGED closeVars

\* Set: s.data[key] = value; assignment to an entry of a nil map panics
SetWrite(p) ==
    /\ Running
    /\ pc[p] = "set_cs"
    /\ IF dataNil
       THEN /\ panicked' = "assignment to entry in nil map"
            /\ UNCHANGED <<data, pc, lastWrite>>
       ELSE /\ data' = SetEntry(data, key[p], val[p])
            /\ pc' = [pc EXCEPT ![p] = "set_unlock"]
            /\ UNCHANGED <<panicked, lastWrite>>
    /\ UNCHANGED <<storeVars, dataNil, stopChan, muVars, disk,
                   argVars, via, ferr, retVars, nops>>
    /\ UNCHANGED closeVars

\* Set: deferred s.mu.Unlock(), return
SetUnlock(p) ==
    /\ Running
    /\ pc[p] = "set_unlock"
    /\ Unlock(p, "idle")
    /\ Returned(p)
    /\ lastWrite' = [lastWrite EXCEPT ![key[p]] = val[p]]
    /\ UNCHANGED <<storeVars, data, dataNil, stopChan, disk,
                   via, ferr, retVars, panicked, nops>>
    /\ UNCHANGED closeVars

(***************************************************************************)
(* Delete                                                                  *)
(***************************************************************************)
\* Delete: s.mu.Lock()
DeleteCall(p, k) ==
    /\ CanCall(p)
    /\ LockOrQueue(p, "del_lock", "del_wwait", "del_cs")
    /\ Called(p, k, NilV)
    /\ UNCHANGED <<storeVars, data, dataNil, stopChan, disk,
                   via, ferr, panicked, lastWrite>>
    /\ closeAlone' = (closeAlone /\ ~CloseInProgress)
    /\ UNCHANGED <<closeRet, closeSnap, closeFlushes>>

\* Delete: delete(s.data, key); a no-op on a nil map
DeleteWrite(p) ==
    /\ Running
    /\ pc[p] = "del_cs"
    /\ data' = DeleteEntry(data, key[p])
    /\ pc' = [pc EXCEPT ![p] = "del_unlock"]
    /\ UNCHANGED <<storeVars, dataNil, stopChan, muVars, disk,
                   argVars, via, ferr, retVars, panicked, nops, lastWrite>>
    /\ UNCHANGED closeVars

\* Delete: deferred s.mu.Unlock(), return
DeleteUnlock(p) ==
    /\ Running
    /\ pc[p] = "del_unlock"
    /\ Unlock(p, "idle")
    /\ Returned(p)
    /\ lastWrite' = [lastWrite EXCEPT ![key[p]] = Absent]
    /\ UNCHANGED <<storeVars, data, dataNil, stopChan, disk,
                   via, ferr, retVars, panicked, nops>>
    /\ UNCHANGED closeVars

(***************************************************************************)
(* Get                                                                     *)
(***************************************************************************)
\* val, ok := s.data[key]
Lookup(m, k) ==
    IF m[k] = Absent THEN [v |-> NilV, ok |-> FALSE, set |-> TRUE]
    ELSE [v |-> m[k], ok |-> TRUE, set |-> TRUE]

\* Get: s.mu.RLock()
GetCall(p, k) ==
    /\ CanCall(p)
    /\ RLock(p, "get_rwait", "get_cs")
    /\ Called(p, k, NilV)
    /\ UNCHANGED <<storeVars, data, dataNil, stopChan, disk,
                   via, ferr, panicked, lastWrite>>
    /\ UNCHANGED closeVars

\* Get: val, ok := s.data[key]
GetRead(p) ==
    /\ Running
    /\ pc[p] = "get_cs"
    /\ getRet' = [getRet EXCEPT ![p] = Lookup(data, key[p])]
    /\ pc' = [pc EXCEPT ![p] = "get_unlock"]
    /\ UNCHANGED <<storeVars, data, dataNil, stopChan, muVars, disk,
                   argVars, via, ferr, errRet, held, panicked, nops,
                   lastWrite>>
    /\ UNCHANGED closeVars

\* Get: deferred s.mu.RUnlock(), return val, ok
GetUnlock(p) ==
    /\ Running
    /\ pc[p] = "get_unlock"
    /\ RUnlock(p, "idle")
    /\ Returned(p)
    /\ getRet' = [getRet EXCEPT ![p] = NoGet]
    /\ UNCHANGED <<storeVars, data, dataNil, stopChan, disk,
                   via, ferr, errRet, held, panicked, nops, lastWrite>>
    /\ UNCHANGED closeVars

(***************************************************************************)
(* All                                                                     *)
(***************************************************************************)
\* an All that returns s.data itself
CopyMapAlias(m) == [has |-> TRUE, alias |-> TRUE, m |-> m]

\* copy := make(map, len(s.data)); for k, v := range s.data { copy[k] = v }
\* The result is a map of its own (alias = FALSE), never s.data itself.
CopyMap(m) == [has |-> TRUE, alias |-> FALSE, m |-> [k \in Keys |-> m[k]]]

\* the entries a caller sees in the map All returned to it
HeldView(p) == IF held[p].alias THEN data ELSE held[p].m

\* All: s.mu.RLock()
AllCall(p) ==
    /\ CanCall(p)
    /\ RLock(p, "all_rwait", "all_cs")
    /\ Called(p, NoKey, NilV)
    /\ UNCHANGED <<storeVars, data, dataNil, stopChan, disk,
                   via, ferr, panicked, lastWrite>>
    /\ UNCHANGED closeVars

\* All: build the copy
AllCopy(p) ==
    /\ Running
    /\ pc[p] = "all_cs"
    /\ held' = [held EXCEPT ![p] = CopyMap(data)]
    /\ pc' = [pc EXCEPT ![p] = "all_unlock"]
    /\ UNCHANGED <<storeVars, data, dataNil, stopChan, muVars, disk,
                   argVars, via, ferr, getRet, errRet, panicked, nops,
                   lastWrite>>
    /\ UNCHANGED closeVars

\* All: deferred s.mu.RUnlock(), return copy
AllUnlock(p) ==
    /\ Running
    /\ pc[p] = "all_unlock"
    /\ RUnlock(p, "idle")
    /\ Returned(p)
    /\ UNCHANGED <<storeVars, data, dataNil, stopChan, disk,
                   via, ferr, retVars, panicked, nops, lastWrite>>
    /\ UNCHANGED closeVars

\* The caller of All writes (v in SetVals) or deletes (v = Absent) an entry of
\* the map it was given. This is the caller's code, outside any lock.
MutateCopy(p, k, v) ==
    /\ Running
    /\ pc[p] = "idle"
    /\ held[p].has
    /\ nops < MaxOps
    /\ nops' = nops + 1
    /\ held' = [held EXCEPT ![p].m = IF held[p].alias THEN @ ELSE [@ EXCEPT ![k] = v]]
    /\ data' = IF held[p].alias THEN [data EXCEPT ![k] = v] ELSE data
    /\ UNCHANGED <<storeVars, dataNil, stopChan, muVars, disk,
                   pc, argVars, via, ferr, getRet, errRet, panicked, lastWrite>>
    /\ UNCHANGED closeVars

(***************************************************************************)
(* Flush                                                                   *)
(***************************************************************************)
\* a loop that flushes again without going through its select
AfterFlushSkipSelect(p) == IF p = Sched THEN "ticked" ELSE "idle"

\* a loop that ends on the first Flush error
AfterFlushExitOnError(p) ==
    IF p = Sched THEN (IF ferr[p] = "io" THEN "stopped" ELSE "select") ELSE "idle"

\* where a goroutine continues when its Flush returns
AfterFlush(p) == IF p = Sched THEN "select" ELSE "idle"

\* a Close that drops the result of its Flush
PropagateFlushOnly(v, e, old) == IF v = "Flush" THEN e ELSE old

\* What the caller of a Flush keeps of its result: Flush() and Close() hand
\* the error to their caller, flushPeriodically assigns it to _.
Propagate(v, e, old) == IF v = "tick" THEN old ELSE e

\* s.mu.RLock() of a Flush called for reason v
FlushEnter(p, v) ==
    /\ RLock(p, "flush_rwait", "flush_cs")
    /\ via' = [via EXCEPT ![p] = v]
    /\ ferr' = [ferr EXCEPT ![p] = None]

\* Flush called by a client: s.mu.RLock()
FlushCall(p) ==
    /\ CanCall(p)
    /\ FlushEnter(p, "Flush")
    /\ Called(p, NoKey, NilV)
    /\ UNCHANGED <<storeVars, data, dataNil, stopChan, disk,
                   panicked, lastWrite>>
    /\ closeAlone' = (closeAlone /\ stopChan = "open")
    /\ UNCHANGED <<closeRet, closeSnap, closeFlushes>>

\* Flush: file, err := os.Create(s.flushPath); if err != nil { return err }
FlushCreate(p, fail) ==
    /\ Running
    /\ pc[p] = "flush_cs"
    /\ LET r == OsCreate(disk, fail)
       IN  /\ disk' = r.disk
           /\ IF r.err # "nil"
              THEN /\ ferr' = [ferr EXCEPT ![p] = r.err]
                   /\ pc' = [pc EXCEPT ![p] = "flush_unlock"]
              ELSE /\ ferr' = ferr
                   /\ pc' = [pc EXCEPT ![p] = "flush_encode"]
    /\ UNCHANGED <<storeVars, data, dataNil, stopChan, muVars,
                   argVars, via, retVars, panicked, nops, lastWrite>>
    /\ UNCHANGED closeVars

\* Flush: return encoder.Encode(s.data); a refused write is the error returned
FlushEncode(p, fail) ==
    /\ Running
    /\ pc[p] = "flush_encode"
    /\ IF fail
       THEN /\ ferr' = [ferr EXCEPT ![p] = "io"]
            /\ disk' = disk
       ELSE /\ ferr' = [ferr EXCEPT ![p] = "nil"]
            /\ disk' = OsWrite(disk, Encode(dataNil, data))
    /\ pc' = [pc EXCEPT ![p] = "flush_unlock"]
    /\ UNCHANGED <<storeVars, data, dataNil, stopChan, muVars,
                   argVars, via, retVars, panicked, nops, lastWrite>>
    /\ UNCHANGED closeVars

\* Flush: deferred file.Close() and s.mu.RUnlock(), return to the caller
FlushUnlock(p) ==
    /\ Running
    /\ pc[p] = "flush_unlock"
    /\ RUnlock(p, AfterFlush(p))
    /\ errRet' = [errRet EXCEPT ![p] = Propagate(via[p], ferr[p], @)]
    /\ via' = [via EXCEPT ![p] = None]
    /\ ferr' = [ferr EXCEPT ![p] = None]
    /\ UNCHANGED <<storeVars, data, dataNil, stopChan, disk,
                   argVars, getRet, held, panicked, nops, lastWrite>>
    /\ closeRet' = IF via[p] = "Close" THEN ferr[p] ELSE closeRet
    /\ UNCHANGED <<closeSnap, closeFlushes, closeAlone>>

(***************************************************************************)
(* Close                                                                   *)
(***************************************************************************)
\* Close: close(s.stopChan); closing a closed channel panics
\* a close guarded so that it runs at most once
ClosePanicsNever(ch) == FALSE

\* close(ch) panics when ch is closed already
ClosePanics(ch) == ch = "closed"

CloseCall(p) ==
    /\ CanCall(p)
    /\ IF ClosePanics(stopChan)
       THEN /\ panicked' = "close of closed channel"
            /\ UNCHANGED <<stopChan, pc, closeSnap, closeAlone>>
       ELSE /\ stopChan' = "closed"
            /\ pc' = [pc EXCEPT ![p] = "close_flush"]
            /\ closeSnap' = data
            /\ closeAlone' = (closeAlone /\ \A q \in Clients \ {p} : pc[q] = "idle")
            /\ UNCHANGED panicked
    /\ Called(p, NoKey, NilV)
    /\ UNCHANGED <<storeVars, data, dataNil, muVars, disk,
                   via, ferr, lastWrite>>
    /\ UNCHANGED <<closeRet, closeFlushes>>

\* Close: return s.Flush()
CloseFlush(p) ==
    /\ Running
    /\ pc[p] = "close_flush"
    /\ FlushEnter(p, "Close")
    /\ UNCHANGED <<storeVars, data, dataNil, stopChan, disk,
                   argVars, retVars, panicked, nops, lastWrite>>
    /\ closeFlushes' = closeFlushes + 1
    /\ UNCHANGED <<closeRet, closeSnap, closeAlone>>

(***************************************************************************)
(* flushPeriodically                                                       *)
(***************************************************************************)
\* ticker := time.NewTicker(s.flushPeriod)
SchedStart ==
    /\ Running
    /\ pc[Sched] = "start"
    /\ pc' = [pc EXCEPT ![Sched] = "select"]
    /\ UNCHANGED <<storeVars, data, dataNil, stopChan, muVars, disk,
                   argVars, via, ferr, retVars, panicked, nops,
                   lastWrite>>
    /\ UNCHANGED closeVars

\* select: case <-ticker.C. When the next tick arrives is up to the timer: it
\* may be waiting in ticker.C already, also when stopChan is closed, and
\* select then picks either ready case.
SchedSelectTick ==
    /\ Running
    /\ pc[Sched] = "select"
    /\ pc' = [pc EXCEPT ![Sched] = "ticked"]
    /\ UNCHANGED <<storeVars, data, dataNil, stopChan, muVars, disk,
                   argVars, via, ferr, retVars, panicked, nops, lastWrite>>
    /\ UNCHANGED closeVars

\* a loop that returns from its select without a stop signal
SchedSelectStopEarly ==
    /\ Running
    /\ pc[Sched] = "select"
    /\ pc' = [pc EXCEPT ![Sched] = "stopped"]
    /\ UNCHANGED <<storeVars, data, dataNil, stopChan, muVars, disk,
                   argVars, via, ferr, retVars, panicked, nops,
                   lastWrite>>
    /\ UNCHANGED closeVars

\* select: case <-s.stopChan: return (and the deferred ticker.Stop())
SchedSelectStop ==
    /\ Running
    /\ pc[Sched] = "select"
    /\ stopChan = "closed"
    /\ pc' = [pc EXCEPT ![Sched] = "stopped"]
    /\ UNCHANGED <<storeVars, data, dataNil, stopChan, muVars, disk,
                   argVars, via, ferr, retVars, panicked, nops,
                   lastWrite>>
    /\ UNCHANGED closeVars

\* _ = s.Flush(): s.mu.RLock()
SchedFlush ==
    /\ Running
    /\ pc[Sched] = "ticked"
    /\ FlushEnter(Sched, "tick")
    /\ UNCHANGED <<storeVars, data, dataNil, stopChan, disk,
                   argVars, retVars, panicked, nops, lastWrite>>
    /\ UNCHANGED closeVars

Next ==
    \/ \E period \in Periods, fail \in BOOLEAN : NewStorage(period, fail)
    \/ \E p \in Clients, k \in Keys, v \in SetVals : SetCall(p, k, v)
    \/ \E p \in Clients : WriterAcquire(p)
    \/ \E p \in Clients : SetWrite(p)
    \/ \E p \in Clients : SetUnlock(p)
    \/ \E p \in Clients, k \in Keys : DeleteCall(p, k)
    \/ \E p \in Clients : DeleteWrite(p)
    \/ \E p \in Clients : DeleteUnlock(p)
    \/ \E p \in Clients, k \in Keys : GetCall(p, k)
    \/ \E p \in Clients : GetRead(p)
    \/ \E p \in Clients : GetUnlock(p)
    \/ \E p \in Clients : AllCall(p)
    \/ \E p \in Clients : AllCopy(p)
    \/ \E p \in Clients : AllUnlock(p)
    \/ \E p \in Clients, k \in Keys, v \in SetVals \cup {Absent} : MutateCopy(p, k, v)
    \/ \E p \in Clients : FlushCall(p)
    \/ \E p \in Procs, fail \in BOOLEAN : FlushCreate(p, fail)
    \/ \E p \in Procs, fail \in BOOLEAN : FlushEncode(p, fail)
    \/ \E p \in Procs : FlushUnlock(p)
    \/ \E p \in Clients : CloseCall(p)
    \/ \E p \in Clients : CloseFlush(p)
    \/ SchedStart
    \/ SchedSelectTick
    \/ SchedSelectStop
    \/ SchedFlush

Spec == Init /\ [][Next]_vars

(***************************************************************************)
(* Properties                                                              *)
(***************************************************************************)
\* a Set or Delete has changed the map and has not returned yet
WriterInside == \E q \in Clients : pc[q] \in {"set_unlock", "del_unlock"}

\* C1: a Get(k) that is returning returns (v, true) where v is the value of
\* the last Set(k, v) that returned, as long as no Set(k, _) or Delete(k)
\* returned after it, whatever else (calls on other keys, All, explicit and
\* periodic Flush) ran in between.
C1_GetAfterSet ==
    \A p \in Clients :
        (pc[p] = "get_unlock" /\ lastWrite[key[p]] # Absent)
            => (getRet[p].ok /\ getRet[p].v = lastWrite[key[p]])

\* C1 witness: a Get is returning the int 1 that a Set stored, after a
\* periodic flush wrote the map holding it to the file.
C1_Witness ==
    \E p \in Clients :
        /\ pc[p] = "get_unlock"
        /\ getRet[p] = [v |-> IntV(1), ok |-> TRUE, set |-> TRUE]
        /\ nops = 2
        /\ disk = File(Encode(FALSE, data))

\* C2: the step of Delete(k) that changes the map removes k, leaves every
\* other entry as it was and fails in no way (on a nil map too); while a
\* Delete(k) is returning, the map is the map of the calls that returned
\* before it with k removed (unchanged when k was absent); and a Get(k) that
\* is returning reports not-found when the last call that returned on k was
\* a Delete (or there was none and k was not loaded).
C2_DeleteInv ==
    /\ \A p \in Clients :
          pc[p] = "del_unlock" => data = [lastWrite EXCEPT ![key[p]] = Absent]
    /\ \A p \in Clients :
          (pc[p] = "get_unlock" /\ lastWrite[key[p]] = Absent)
              => (~getRet[p].ok /\ getRet[p].v = NilV)

C2_DeleteStep ==
    \A p \in Clients :
        (pc[p] = "del_cs" /\ pc'[p] # "del_cs")
            => /\ pc'[p] = "del_unlock"
               /\ panicked' = None
               /\ dataNil' = dataNil
               /\ data' = [j \in Keys |-> IF j = key[p] THEN Absent ELSE data[j]]

C2_Delete == []C2_DeleteInv /\ [][C2_DeleteStep]_vars

\* C2 witness: a Delete of a present key is returning and the other entry is
\* still there.
C2_Witness ==
    \E p \in Clients :
        /\ pc[p] = "del_unlock"
        /\ lastWrite[key[p]] # Absent
        /\ \E j \in Keys : j # key[p] /\ data[j] # Absent /\ data[j] = lastWrite[j]

\* C3: the map All is returning holds exactly the entries of the last calls
\* that returned; outside a Set/Delete the store holds exactly those entries,
\* whatever callers did to maps All gave them; and the entries of a map All
\* returned change only when its holder changes them.
C3_AllExact ==
    /\ \A p \in Clients : pc[p] = "all_unlock" => HeldView(p) = lastWrite
    /\ ~WriterInside => data = lastWrite

C3_HeldStable ==
    \A p \in Clients :
        (held[p].has /\ held'[p].has /\ HeldView(p)' # HeldView(p))
            => (pc[p] = "idle" /\ pc'[p] = "idle" /\ nops' = nops + 1)

C3_All == []C3_AllExact /\ [][C3_HeldStable]_vars

\* C3 witness: a caller holds a map from All that it changed, and the store
\* still holds what was written to it.
C3_Witness ==
    \E p \in Clients :
        /\ pc[p] = "idle"
        /\ held[p].has
        /\ nops = 2
        /\ HeldView(p) # data
        /\ data = lastWrite

\* JSON equivalence of two maps: the same keys, and numbers of the same
\* magnitude (an int and a float64 that print alike are equivalent).
Equivalent(a, b) ==
    \A k \in Keys :
        /\ (a[k] = Absent) <=> (b[k] = Absent)
        /\ a[k] # Absent => a[k].n = b[k].n

\* the map a fresh store gets from NewStorage on file d
FreshStore(d) == loadFromDisk(d, FALSE, FALSE, EmptyMap)

\* C4: when a Flush writes without error, the file holds exactly the encoding
\* of the map (nothing of the earlier content), and a store constructed on
\* it loads without error a map with the same keys and equivalent values.
C4_FlushStep ==
    \A p \in Procs :
        (pc[p] = "flush_encode" /\ pc'[p] = "flush_unlock" /\ ferr'[p] = "nil")
            => /\ disk' = File(Encode(dataNil, data))
               /\ FreshStore(disk').err = "nil"
               /\ FreshStore(disk').isNil = dataNil
               /\ Equivalent(FreshStore(disk').m, data)

C4_RoundTrip == [][C4_FlushStep]_vars

\* C4 witness: an explicit Flush has written a map that differs from what the
\* file held at construction, and holds an int that loads back as a float64.
C4_Witness ==
    \E p \in Clients :
        /\ pc[p] = "flush_unlock"
        /\ via[p] = "Flush"
        /\ ferr[p] = "nil"
        /\ data = [k \in Keys |-> IF k = "k1" THEN IntV(1) ELSE FloatV(1)]
        /\ disk = File(Encode(FALSE, data))
        /\ FreshStore(disk).m # data
        /\ Equivalent(FreshStore(disk).m, data)

InFlush(p) == pc[p] \in {"flush_rwait", "flush_cs", "flush_encode", "flush_unlock"}

\* C5: once Close has returned, the scheduler is in no Flush (it starts none
\* and completes none).
C5_NoFlushAfterClose == closeRet # None => ~InFlush(Sched)

\* C6, on the runs the claim names (Close called once, no Set/Delete/Flush
\* call overlapping it, no explicit Flush after it; Set/Delete calls after it
\* returned and the scheduler are free): once Close has returned without
\* error, the file holds the encoding of the map as it was when Close was
\* called.
C6_PersistedAfterClose ==
    (closeRet = "nil" /\ closeAlone) => disk = File(Encode(dataNil, closeSnap))

\* C7: a Close call closes stopChan before its Flush begins, makes exactly
\* one Flush call, and returns what that Flush returned (nil or the error),
\* having closed stopChan also when the Flush failed.
C7_CloseInv ==
    /\ \A p \in Clients :
          /\ pc[p] = "close_flush" => (stopChan = "closed" /\ closeFlushes = 0)
          /\ via[p] = "Close" => (stopChan = "closed" /\ closeFlushes = 1)
    /\ closeRet # None
          => (stopChan = "closed" /\ closeFlushes = 1 /\ closeRet \in {"nil", "io"})

C7_CloseStep ==
    \A p \in Clients :
        (via[p] = "Close" /\ pc[p] = "flush_unlock" /\ pc'[p] # "flush_unlock")
            => /\ pc'[p] = "idle"
               /\ ferr[p] \in {"nil", "io"}
               /\ errRet'[p] = ferr[p]
               /\ closeRet' = ferr[p]

C7_Close == []C7_CloseInv /\ [][C7_CloseStep]_vars

\* C7 witness: a Close whose Flush failed has returned the error, and
\* stopChan is closed.
C7_Witness ==
    \E p \in Clients :
        /\ pc[p] = "idle"
        /\ errRet[p] = "io"
        /\ closeRet = "io"
        /\ stopChan = "closed"

\* C8: NewStorage starts one flushPeriodically goroutine when the period is
\* greater than zero and none when it is zero; with period zero the file
\* changes only in a step of a Flush called by Flush() or Close().
C8_SchedInv ==
    /\ ~constructed => nSched = 0
    /\ constructed =>
          /\ nSched = (IF flushPeriod > 0 THEN 1 ELSE 0)
          /\ (flushPeriod = 0) <=> (pc[Sched] = "none")

C8_DiskStep ==
    (flushPeriod = 0 /\ disk' # disk)
        => \E p \in Clients :
              /\ via[p] \in {"Flush", "Close"}
              /\ pc[p] \in {"flush_cs", "flush_encode"}
              /\ pc'[p] # pc[p]

C8_PeriodZero == []C8_SchedInv /\ [][C8_DiskStep]_vars

\* C8 witness: a store with period zero on a missing file, after two Set
\* calls returned: the file is still missing.
C8_Witness ==
    /\ constructed
    /\ flushPeriod = 0
    /\ nops = 2
    /\ \A p \in Clients : pc[p] = "idle"
    /\ \E k \in Keys : data[k] = IntV(1)
    /\ ~disk.exists

\* C9: NewStorage on a missing file gives a store with an empty (non-nil)
\* map, loadFromDisk returns nil, the file is not created and nothing
\* panics; a first Get on it reports not-found and a first All is empty.
C9_NewStep ==
    (~constructed /\ constructed' /\ ~disk.exists)
        => /\ data' = EmptyMap
           /\ ~dataNil'
           /\ loadErr' = "nil"
           /\ disk' = disk
           /\ panicked' = None

C9_FirstCall ==
    \A p \in Clients :
        (nops = 1 /\ ~disk.exists)
            => /\ pc[p] = "get_unlock" => (~getRet[p].ok /\ getRet[p].v = NilV)
               /\ pc[p] = "all_unlock" => HeldView(p) = EmptyMap

C9_MissingFile == []C9_FirstCall /\ [][C9_NewStep]_vars

\* C9 witness: the first call on a store constructed on a missing file is an
\* All that is returning the empty map; the file is still missing.
C9_Witness ==
    \E p \in Clients :
        /\ constructed
        /\ ~disk.exists
        /\ loadErr = "nil"
        /\ nops = 1
        /\ pc[p] = "all_unlock"
        /\ HeldView(p) = EmptyMap

\* C10: when a periodic Flush returns an error, no caller receives it,
\* nothing panics and the goroutine is back at its select, where a tick can
\* always be taken; a tick taken always calls Flush; the goroutine leaves the
\* loop only from the select with stopChan closed; and a periodic Flush that
\* writes without error leaves the encoding of the current map in the file.
C10_SchedStep ==
    /\ (pc[Sched] = "flush_unlock" /\ ferr[Sched] = "io" /\ pc'[Sched] # "flush_unlock")
          => /\ pc'[Sched] = "select"
             /\ errRet' = errRet
             /\ closeRet' = closeRet
             /\ panicked' = None
    /\ (pc[Sched] = "ticked" /\ pc'[Sched] # "ticked")
          => (pc'[Sched] \in {"flush_rwait", "flush_cs"} /\ via'[Sched] = "tick")
    /\ (pc[Sched] # "stopped" /\ pc'[Sched] = "stopped")
          => (pc[Sched] = "select" /\ stopChan = "closed")
    /\ (pc[Sched] = "flush_encode" /\ pc'[Sched] = "flush_unlock" /\ ferr'[Sched] = "nil")
          => disk' = File(Encode(dataNil, data))

C10_TickEnabled == (Running /\ pc[Sched] = "select") => ENABLED SchedSelectTick

C10_Swallowed == []C10_TickEnabled /\ [][C10_SchedStep]_vars

\* C10 witness: no call was made, the periodic Flush created the file and
\* failed to write it, and the goroutine is at its select again with
\* stopChan open.
C10_Witness ==
    /\ nops = 0
    /\ disk = File(<<>>)
    /\ pc[Sched] = "select"
    /\ stopChan = "open"
    /\ panicked = None
    /\ \A p \in Clients : errRet[p] = None

\* C11: when the initial load fails (the file exists and cannot be opened,
\* or cannot be decoded), the caller of NewStorage is handed that error.
C11_LoadErrorSurfaced ==
    (constructed /\ loadErr \notin {None, "nil"}) => newErr = loadErr

\* C12: no Set, Get, Delete or All call ends in a panic, whatever the file
\* held at construction.
C12_NeverFail == panicked # "assignment to entry in nil map"

\* C13: the stop signal is triggered once, by the first Close; every later
\* Close call, also one made while the first is still flushing, panics on
\* close(stopChan) and performs no Flush.
C13_CloseInv ==
    /\ closeFlushes + Cardinality({p \in Clients : pc[p] = "close_flush"}) <= 1
    /\ Cardinality({p \in Clients : via[p] = "Close"}) <= 1
    /\ panicked = "close of closed channel" => stopChan = "closed"
    /\ (stopChan = "open") => (closeFlushes = 0 /\ closeRet = None)

C13_CloseStep ==
    /\ stopChan # stopChan' =>
          /\ stopChan = "open"
          /\ \E p \in Clients : pc[p] = "idle" /\ pc'[p] = "close_flush"
    /\ \A p \in Clients :
          (CloseCall(p) /\ stopChan = "closed") =>
              /\ panicked' = "close of closed channel"
              /\ pc'[p] = "idle"
              /\ closeFlushes' = closeFlushes
              /\ disk' = disk
              /\ muReaders' = muReaders
    /\ (panicked = None /\ panicked' = "close of closed channel") =>
          /\ stopChan = "closed"
          /\ pc' = pc
          /\ disk' = disk

C13_NotIdempotent == []C13_CloseInv /\ [][C13_CloseStep]_vars

\* a second Close has panicked while the first one was flushing
C13_Witness ==
    /\ panicked = "close of closed channel"
    /\ closeRet = None
    /\ \E p \in Clients : via[p] = "Close"

\* the callers inside the exclusive section of Set or Delete
WritersIn == {p \in Procs : pc[p] \in {"set_cs", "set_unlock", "del_cs", "del_unlock"}}

\* the callers inside the shared section of Get, All or Flush
ReadersIn ==
    {p \in Procs : pc[p] \in {"get_cs", "get_unlock", "all_cs", "all_unlock",
                              "flush_cs", "flush_encode", "flush_unlock"}}

\* C14: at most one Set or Delete is inside its critical section, and while
\* one is, no Get, All or Flush (explicit, periodic or from Close) is inside
\* its own; Get, All and Flush may be inside together.
C14_Exclusion ==
    /\ Cardinality(WritersIn) <= 1
    /\ WritersIn # {} => ReadersIn = {}
    /\ ReadersIn = muReaders
    /\ WritersIn # {} => WritersIn = {muWriter}

\* three shared sections are open at once: the periodic Flush, the Flush of
\* Close, and a Get or All
C14_Witness ==
    /\ ReadersIn = Procs
    /\ via[Sched] = "tick"
    /\ \E p \in Clients : via[p] = "Close"
    /\ \E p \in Clients : pc[p] \in {"get_cs", "all_cs"}

\* the Flush executions between s.mu.RLock() and the deferred s.mu.RUnlock()
FlushInside == {p \in Procs : pc[p] \in {"flush_cs", "flush_encode", "flush_unlock"}}

\* C15: while a Flush holds shared access the mapping does not change, and
\* a Flush that succeeds has written the mapping as it stands after the Set
\* and Delete calls that completed before it, all of them and no part of a
\* later one.
C15_SnapshotInv ==
    FlushInside # {} => (data = lastWrite /\ WritersIn = {})

C15_SnapshotStep ==
    /\ FlushInside # {} =>
          (data' = data /\ dataNil' = dataNil /\ lastWrite' = lastWrite)
    /\ \A p \in Procs :
          (pc[p] = "flush_encode" /\ pc'[p] = "flush_unlock" /\ ferr'[p] = "nil") =>
              disk' = File(Encode(dataNil, lastWrite))

C15_Snapshot == []C15_SnapshotInv /\ [][C15_SnapshotStep]_vars

\* a Flush has written the mapping while a Set of another value waits for
\* the Flush to release the lock
C15_Witness ==
    \E p \in Procs, q \in Clients :
        /\ pc[p] = "flush_unlock"
        /\ ferr[p] = "nil"
        /\ pc[q] = "set_wwait"
        /\ data[key[q]] # val[q]
        /\ disk = File(Encode(dataNil, data))

\* the Set and Delete calls that were made and have not returned
WritersPending ==
    {p \in Clients : pc[p] \in {"set_lock", "set_wwait", "set_cs", "set_unlock",
                                "del_lock", "del_wwait", "del_cs", "del_unlock"}}

\* C16: Set calls on one key that overlap take effect one after the other,
\* in the order of their exclusive sections; an entry of the constructed
\* store only changes to the value of the Set inside its exclusive section;
\* once all of them returned, the entry, and what Get returns for it, is
\* the value of the Set that was last in that order.
C16_OrderInv ==
    /\ WritersPending = {} => data = lastWrite
    /\ \A p \in Clients :
          pc[p] = "set_unlock" => data[key[p]] = val[p]
    /\ \A p \in Clients :
          pc[p] = "get_unlock" => getRet[p] = Lookup(lastWrite, key[p])

C16_OrderStep ==
    /\ \A k \in Keys :
          (constructed /\ data'[k] # data[k]) =>
              \E p \in Clients :
                  /\ key[p] = k
                  /\ \/ pc[p] = "set_cs" /\ pc'[p] = "set_unlock" /\ data'[k] = val[p]
                     \/ pc[p] = "del_cs" /\ pc'[p] = "del_unlock" /\ data'[k] = Absent
    /\ \A p \in Clients :
          (pc[p] = "set_cs" /\ pc'[p] = "set_unlock") =>
              data' = [data EXCEPT ![key[p]] = val[p]]
    /\ \A p \in Clients :
          (pc[p] = "set_unlock" /\ pc'[p] # "set_unlock") =>
              /\ data' = data
              /\ \A q \in Clients \ {p} : pc'[q] \notin {"set_cs", "set_unlock", "del_cs", "del_unlock"}

C16_LastWriterWins == []C16_OrderInv /\ [][C16_OrderStep]_vars

\* two Set calls on one key overlap: one has written its value and is about
\* to unlock, the other, with another value, is blocked in Lock
C16_Witness ==
    \E p, q \in Clients :
        /\ pc[p] = "set_unlock"
        /\ pc[q] = "set_lock"
        /\ key[q] = key[p]
        /\ val[q] # val[p]
        /\ data[key[p]] = val[p]

(***************************************************************************)
(* Workers on disjoint keys                                                *)
(***************************************************************************)
\* the key a client goroutine keeps to
KeyOf(p) == IF p = "c1" THEN "k1" ELSE "k2"

InitDisjoint == InitStore(MaxOpsDisjoint)

\* Each client goroutine calls Set, Get and Delete on its own key, and All,
\* while the flushPeriodically goroutine flushes.
NextDisjoint ==
    \/ \E period \in Periods, fail \in BOOLEAN : NewStorage(period, fail)
    \/ \E p \in Clients, v \in SetVals : SetCall(p, KeyOf(p), v)
    \/ \E p \in Clients : WriterAcquire(p)
    \/ \E p \in Clients : SetWrite(p)
    \/ \E p \in Clients : SetUnlock(p)
    \/ \E p \in Clients : DeleteCall(p, KeyOf(p))
    \/ \E p \in Clients : DeleteWrite(p)
    \/ \E p \in Clients : DeleteUnlock(p)
    \/ \E p \in Clients : GetCall(p, KeyOf(p))
    \/ \E p \in Clients : GetRead(p)
    \/ \E p \in Clients : GetUnlock(p)
    \/ \E p \in Clients : AllCall(p)
    \/ \E p \in Clients : AllCopy(p)
    \/ \E p \in Clients : AllUnlock(p)
    \/ \E fail \in BOOLEAN : FlushCreate(Sched, fail)
    \/ \E fail \in BOOLEAN : FlushEncode(Sched, fail)
    \/ FlushUnlock(Sched)
    \/ SchedStart
    \/ SchedSelectTick
    \/ SchedFlush

SpecDisjoint == InitDisjoint /\ [][NextDisjoint]_vars

\* C17: with each worker on a key of its own, a worker's Get returns what
\* that worker's own last Set or Delete left (what was loaded, before its
\* first one), whatever the other worker and the periodic Flush did in
\* between; no write changes the entry of another worker's key; and All
\* returns, key by key, what each worker's last completed call left.
C17_DisjointInv ==
    /\ \A p \in Clients :
          pc[p] = "get_unlock" =>
              /\ key[p] = KeyOf(p)
              /\ getRet[p] = Lookup(lastWrite, KeyOf(p))
    /\ \A p \in Clients :
          (pc[p] = "idle" \/ pc[p] \in {"get_cs", "get_unlock", "all_cs", "all_unlock"})
              => data[KeyOf(p)] = lastWrite[KeyOf(p)]
    /\ \A p \in Clients :
          pc[p] = "all_unlock" =>
              \A q \in Clients : HeldView(p)[KeyOf(q)] = lastWrite[KeyOf(q)]

C17_DisjointStep ==
    \A p \in Clients :
        /\ (constructed /\ data'[KeyOf(p)] # data[KeyOf(p)]) =>
               (pc[p] \in {"set_cs", "del_cs"} /\ pc'[p] # pc[p])
        /\ lastWrite'[KeyOf(p)] # lastWrite[KeyOf(p)] =>
               (~constructed \/ (pc[p] \in {"set_unlock", "del_unlock"} /\ pc'[p] = "idle"))

C17_NoLostUpdates == []C17_DisjointInv /\ [][C17_DisjointStep]_vars

\* a worker's Get is returning the value of its own Set while the other
\* worker's Set, made in between, has changed the other key
C17_Witness ==
    \E p, q \in Clients :
        /\ p # q
        /\ pc[p] = "get_unlock"
        /\ getRet[p] = [v |-> IntV(1), ok |-> TRUE, set |-> TRUE]
        /\ data[KeyOf(q)] = IntV(1)
        /\ nops = 3

\* the positions of the flushPeriodically goroutine before it returned
SchedRunning ==
    {"start", "select", "ticked", "flush_rwait", "flush_cs", "flush_encode",
     "flush_unlock"}

\* C18: the flushPeriodically goroutine is not started, running or stopped.
\* It stops only from its select, with stopChan closed, and stopChan is
\* closed only by a Close call; a Flush that ends, with or without an error,
\* takes it back to the select; once it stopped it stays stopped and flushes
\* no more.
C18_StateInv ==
    /\ pc[Sched] \in SchedRunning \cup {"none", "stopped"}
    /\ pc[Sched] = "stopped" =>
          (stopChan = "closed" /\ via[Sched] = None /\ Sched \notin muReaders)
    /\ stopChan = "closed" =>
          (closeFlushes = 1 \/ \E p \in Clients : pc[p] = "close_flush")

C18_StateStep ==
    /\ pc[Sched] = "stopped" => (pc'[Sched] = "stopped" /\ via'[Sched] = None)
    /\ (pc[Sched] \in SchedRunning /\ pc'[Sched] \notin SchedRunning) =>
          (pc[Sched] = "select" /\ stopChan = "closed" /\ pc'[Sched] = "stopped")
    /\ (pc[Sched] = "flush_unlock" /\ pc'[Sched] # "flush_unlock") =>
          pc'[Sched] = "select"
    /\ (stopChan = "open" /\ stopChan' = "closed") =>
          \E p \in Clients :
              pc[p] = "idle" /\ pc'[p] = "close_flush" /\ nops' = nops + 1
    /\ (constructed /\ stopChan = "closed") => stopChan' = "closed"

C18_Scheduler == []C18_StateInv /\ [][C18_StateStep]_vars

\* the goroutine stopped and Close has returned, after a Flush that failed
\* once it had created the file
C18_Witness ==
    /\ pc[Sched] = "stopped"
    /\ closeRet # None
    /\ disk = File(<<>>)
    /\ nops = 1

(***************************************************************************)
(* Fair scheduling                                                         *)
(***************************************************************************)
\* the steps of a client goroutine inside a call it has made
ClientStep(p) ==
    \/ WriterAcquire(p)
    \/ SetWrite(p)
    \/ SetUnlock(p)
    \/ DeleteWrite(p)
    \/ DeleteUnlock(p)
    \/ GetRead(p)
    \/ GetUnlock(p)
    \/ AllCopy(p)
    \/ AllUnlock(p)
    \/ \E fail \in BOOLEAN : FlushCreate(p, fail)
    \/ \E fail \in BOOLEAN : FlushEncode(p, fail)
    \/ FlushUnlock(p)
    \/ CloseFlush(p)

\* the steps of the flushPeriodically goroutine other than its select
SchedStep ==
    \/ SchedStart
    \/ SchedFlush
    \/ \E fail \in BOOLEAN : FlushCreate(Sched, fail)
    \/ \E fail \in BOOLEAN : FlushEncode(Sched, fail)
    \/ FlushUnlock(Sched)

\* The Go scheduler runs every goroutine that can run, and a select with
\* several ready cases picks one of them at random: a goroutine that comes
\* back to the select again and again with stopChan closed takes the
\* stopChan case at some point.
Fairness ==
    /\ \A p \in Clients : WF_vars(ClientStep(p))
    /\ WF_vars(SchedStep)
    /\ SF_vars(SchedSelectStop)

FairSpec == Init /\ [][Next]_vars /\ Fairness

\* C19: with a period above zero, once Close has closed stopChan the
\* flushPeriodically goroutine returns, also when a tick is ready at every
\* select and when a periodic Flush is under way (unless the process died
\* of a panic before).
C19_SchedulerStops ==
    (stopChan = "closed" /\ pc[Sched] \in SchedRunning)
        ~> (pc[Sched] = "stopped" \/ panicked # None)

\* the goroutine has returned while the Flush of the Close that stopped it
\* is still under way
C19_Witness ==
    /\ pc[Sched] = "stopped"
    /\ CloseInProgress
    /\ \E p \in Clients : via[p] = "Close" /\ pc[p] = "flush_encode"

\* the values an entry of the store can hold: set by a caller, or decoded
\* from the file at construction
HeldValues == SetVals \cup {Absent} \cup {FloatV(n) : n \in 1..2}

\* the Flush executions that have created the file and not failed since
FlushWriting ==
    {p \in Procs : pc[p] = "flush_encode" \/ (pc[p] = "flush_unlock" /\ ferr[p] = "nil")}

\* C20: the file is as it was before construction, or empty (a Flush has
\* created it and did not, or not yet, write it), or the encoding of one
\* mapping the store held. It changes only when a Flush creates it, to
\* empty, and when a Flush writes it, to the encoding of the mapping held
\* at that step; Flush executions that overlap write the same mapping; a
\* Flush that fails to create the file changes neither file nor mapping.
C20_DiskInv ==
    /\ \/ disk \in InitDisks
       \/ disk = File(<<>>)
       \/ \E n \in BOOLEAN, m \in [Keys -> HeldValues] : disk = File(Encode(n, m))
    /\ FlushWriting # {} => disk \in {File(<<>>), File(Encode(dataNil, data))}

C20_DiskStep ==
    /\ disk' # disk =>
          \E p \in Procs :
              \/ /\ pc[p] = "flush_cs"
                 /\ pc'[p] = "flush_encode"
                 /\ disk' = File(<<>>)
              \/ /\ pc[p] = "flush_encode"
                 /\ pc'[p] = "flush_unlock"
                 /\ ferr'[p] = "nil"
                 /\ data = lastWrite
                 /\ disk' = File(Encode(dataNil, data))
    /\ \A p \in Procs :
          (pc[p] = "flush_cs" /\ pc'[p] = "flush_unlock") =>
              /\ ferr'[p] = "io"
              /\ disk' = disk
              /\ data' = data
              /\ dataNil' = dataNil
    /\ \A p \in Procs :
          (pc[p] = "flush_encode" /\ pc'[p] = "flush_unlock" /\ ferr'[p] = "io") =>
              (disk' = disk /\ data' = data)

C20_Persisted == []C20_DiskInv /\ [][C20_DiskStep]_vars

\* two Flush executions overlapped, each created and wrote the file, and it
\* holds the encoding of the mapping once
C20_Witness ==
    \E p, q \in Procs :
        /\ p # q
        /\ pc[p] = "flush_unlock" /\ ferr[p] = "nil"
        /\ pc[q] = "flush_unlock" /\ ferr[q] = "nil"
        /\ data # EmptyMap
        /\ disk = File(Encode(dataNil, data))

====
